---- MODULE Spec2Model ----
(***************************************************************************)
(* Transaction lifecycle of the swap and deposit confirmation trackers.    *)
(*                                                                         *)
(* One tracker hook instance is mounted at a time: useSwapTransaction      *)
(* (src/unnamed/part_001) or useDepositTransaction                         *)
(* (src/hooks/walletProvider/deposit/useDepositTransaction.ts).  Both keep *)
(* the same pending state (isPending, hash, timeLeft, pollingIntervalRef,  *)
(* retryCountRef) and write to the shared transaction ledger of the store. *)
(* A step of the model is one task of the event loop: a timer callback, a  *)
(* promise continuation or a user action, together with the React commit   *)
(* and the effects that the state changes of the task trigger.             *)
(***************************************************************************)
EXTENDS Integers, Sequences, FiniteSets, Bags, TLC

\* ------------------------------------------------------------ constants
MAX_RETRIES == 30
COUNTDOWN_START == 90

\* ------------------------------------------------------------ bounds
\* Spec follows several submissions through the first seconds of each cycle
\* submissions that succeed
MaxSubmits == 2
\* ticks of the polling interval after a submission
MaxTicks == 3
\* seconds of the countdown after a submission
Horizon == 4

\* CycleSpec follows whole cycles, down to the retry cap and the end of the countdown
\* submissions that succeed
MaxCycles == 1
\* ticks of the polling interval after a submission
MaxQueries == 32

\* IntentSpec follows orders from any form through validation and approval
\* submissions that succeed
MaxOrders == 1

\* QuoteSpec follows conversion requests against the quote cache
\* readings of Date.now(), one per minute
MaxClock == 5
\* backend conversion requests pending at the same time
MaxFetches == 2

\* AllowanceSpec follows token selections and the allowance queries they start
\* checkAllowance requests pending at the same time
MaxChecks == 2

\* promises (status queries, balance refreshes) pending at the same time
MaxInFlight == 2
\* seconds the countdown may run ahead of or behind the polling interval
MaxSkew == 5
MaxBurst == 3

\* ------------------------------------------------------------ values
NoHash == ""
TempHash == "tempHash"
WalletHashes == <<"0xa1", "0xb2", "0xc3", "0xd4">>
WalletHash(n) == WalletHashes[n]

PENDING == "pending"
CONFIRMED == "confirmed"
FAILED == "failed"

Networks == {1, 2}

\* ------------------------------------------------------------ amounts
\* A decimal string: sign, whole tokens and a fraction counted in units of
\* 1e-18 (the 18th decimal place); empty = the string "".
Decimal(neg, whole, frac) ==
    [empty |-> FALSE, neg |-> neg, whole |-> whole, frac |-> frac]
EmptyString == [empty |-> TRUE, neg |-> FALSE, whole |-> 0, frac |-> 0]

\* spacing of the IEEE-754 doubles in [1, 2), 2^-52, in units of 1e-18
Ulp == 222

\* parseFloat(s): the double nearest to the decimal; NaN for "".  Below 1 the
\* doubles are finer than 1e-18, so the fraction survives; from 1 on the
\* fraction is rounded to the grid of the doubles.
parseFloat(s) ==
    [nan |-> s.empty, neg |-> s.neg, whole |-> s.whole,
     frac |-> IF s.whole = 0 THEN s.frac ELSE ((2 * s.frac + Ulp) \div (2 * Ulp)) * Ulp]

\* |a| < |b|
Smaller(a, b) == a.whole < b.whole \/ (a.whole = b.whole /\ a.frac < b.frac)
IsZero(a) == a.whole = 0 /\ a.frac = 0

\* a > b on numbers; false when either is NaN
Greater(a, b) ==
    /\ ~a.nan /\ ~b.nan
    /\ IF a.neg # b.neg THEN b.neg /\ ~(IsZero(a) /\ IsZero(b))
       ELSE IF a.neg THEN Smaller(a, b)
       ELSE Smaller(b, a)

\* a <= 0 on numbers; false when a is NaN
NotPositive(a) == ~a.nan /\ (a.neg \/ IsZero(a))

\* ------------------------------------------------------------ tokens and intents
Token(address, balance, native) ==
    [address |-> address, balance |-> balance, native |-> native]
NoToken == Token("", EmptyString, FALSE)

Addresses == {"0xaa", "0xbb"}
Balances == {Decimal(FALSE, 1, 0), Decimal(FALSE, 1, 1)}
Amounts ==
    {EmptyString, Decimal(FALSE, 0, 0), Decimal(TRUE, 1, 0), Decimal(FALSE, 0, 1),
     Decimal(FALSE, 1, 0), Decimal(FALSE, 1, 1), Decimal(FALSE, 1, 2), Decimal(FALSE, 2, 0)}
FromTokens ==
    {NoToken} \cup {Token(a, b, n) : a \in Addresses, b \in Balances, n \in BOOLEAN}
ToTokens == {NoToken} \cup {Token(a, Decimal(FALSE, 1, 0), FALSE) : a \in Addresses}

Intent(from, to, amount) ==
    [fromToken |-> from, toToken |-> to, exchangeAmount |-> amount]
\* the form after resetFormState
EmptyIntent == Intent(NoToken, NoToken, EmptyString)
\* a filled form that passes every check
ReadyIntent ==
    Intent(Token("0xaa", Decimal(FALSE, 1, 0), FALSE),
           Token("0xbb", Decimal(FALSE, 1, 0), FALSE),
           Decimal(FALSE, 1, 0))

\* useSwapTransaction.validateSwap
validateSwap(i) ==
    /\ ~(i.fromToken = NoToken \/ i.toToken = NoToken)
    /\ ~(i.exchangeAmount.empty \/ NotPositive(parseFloat(i.exchangeAmount)))
    /\ ~Greater(parseFloat(i.exchangeAmount), parseFloat(i.fromToken.balance))
    /\ i.fromToken.address # i.toToken.address

\* executeTransaction: if (!selectedToken || !depositAmount ...) return
depositPreflight(i) ==
    ~(i.fromToken = NoToken \/ i.exchangeAmount.empty)

\* selectedToken.symbol, by address
SymbolOf(address) == CASE address = "0xaa" -> "USDT" [] address = "0xbb" -> "CAKE" [] OTHER -> ""
\* symbols the deposit transfers without a swap
DirectSymbols == {"USDT", "USDC", "55Swap", "USD₮0", "USDT0"}
isDirect(token) == SymbolOf(token.address) \in DirectSymbols
\* a bypass for a missing or native token only
BypassedNativeOnly(token) == token = NoToken \/ token.native
\* the allowance effect of the deposit sets isApproved without asking the
\* backend: no token selected, a native token, or a direct-transfer symbol
\* (the user is taken to be signed in with a wallet address)
Bypassed(token) == token = NoToken \/ token.native \/ isDirect(token)

\* ------------------------------------------------------------ deposit route
\* user.autodepo (absent as ""), depositType, and whether dstSwapInfo is set
AutoDeposits == {"", "ON", "OFF", "off"}
DepositTypes == {"direct", "swap", ""}
\* String.prototype.toUpperCase on these
toUpperCase(str) == IF str = "off" THEN "OFF" ELSE str
\* user.autodepo?.toUpperCase() !== "OFF"
isAutoDepositOn(autodepo) == autodepo = "" \/ toUpperCase(autodepo) # "OFF"

\* ------------------------------------------------------------ token list
\* the debounce of the token synchronisation effect, in quarter seconds
DEBOUNCE == 2
\* String.prototype.toLowerCase on addresses
toLowerCase(str) == IF str = "0xAA" THEN "0xaa" ELSE IF str = "0xBB" THEN "0xbb" ELSE str
\* the token lists useTokens can return: address -> balance
TokenLists == [Addresses -> Balances]
\* a timeout armed by the effect: what is left of its delay and the tokens,
\* fromToken and toToken of the render that armed it
Timeout(due, tokens, from, to) == [due |-> due, tokens |-> tokens, from |-> from, to |-> to]
\* the effect's cleanup without its clearTimeout
clearTimeoutSkipped(timeouts) == timeouts
\* return () => clearTimeout(timeoutId): the timeout of the previous run is gone
clearTimeout(timeouts) == {}
\* tokens: the current list; timeouts: the armed ones; quiet: quarter seconds
\* since the last refresh (DEBOUNCE = that long or longer); burst: refreshes
\* of the burst under way, each sooner than DEBOUNCE after the one before;
\* merges: updates of the selection since the burst began; last: what the
\* last step did
Sync(tokens, timeouts, quiet, burst, merges, last) ==
    [tokens |-> tokens, timeouts |-> timeouts, quiet |-> quiet, burst |-> burst,
     merges |-> merges, last |-> last]
\* the list matches the form and the timeout of the mount has fired
SettledSync ==
    Sync([a \in Addresses |-> ReadyIntent.fromToken.balance], {}, DEBOUNCE, 0, 0, "none")

\* a deposit call: its inputs, where it stands, the service calls it has
\* made in order, and how it ended
Route(stage, autodepo, depositType, dstSwapInfo, token, calls, outcome) ==
    [stage |-> stage, autodepo |-> autodepo, depositType |-> depositType,
     dstSwapInfo |-> dstSwapInfo, token |-> token, calls |-> calls, outcome |-> outcome]
IdlePath == Route("idle", "", "", FALSE, "", <<>>, "none")

\* ------------------------------------------------------------ swap preparation
\* to and data of a prepared transaction
Targets == {"0xrouter", "0xpool"}
Calldata == {"0x01", "0x02"}
\* txDetails.value: absent, or a decimal string
Quantities == {"", "0", "7"}
\* BigInt(s) of a decimal string
BigInt(s) == CASE s = "0" -> 0 [] s = "7" -> 7

\* what /apiSwap/swap answers: the request fails ("unreachable"), the
\* response carries the error flag ("error"), its data carries an error field
\* ("refused"), or its data is a transaction to sign ("prepared")
Prepared(to, data, value) ==
    [kind |-> "prepared", to |-> to, data |-> data, value |-> value]
Unprepared(kind) == [kind |-> kind, to |-> "", data |-> "", value |-> ""]
NoResponse == Unprepared("none")
SwapResponses ==
    {Unprepared(k) : k \in {"unreachable", "error", "refused"}}
        \cup {Prepared(t, d, v) : t \in Targets, d \in Calldata, v \in Quantities}

\* the arguments walletClient.sendTransaction was called with
NotSent == [called |-> FALSE, to |-> "", data |-> "", value |-> 0]
Sent(to, data, value) == [called |-> TRUE, to |-> to, data |-> data, value |-> value]

\* how the promise of executeSwap settled
NoReply == [settled |-> "no", success |-> FALSE, txHash |-> NoHash, error |-> FALSE]
Thrown == [settled |-> "rejected", success |-> FALSE, txHash |-> NoHash, error |-> TRUE]
Failure == [settled |-> "resolved", success |-> FALSE, txHash |-> NoHash, error |-> TRUE]
Success(hash) == [settled |-> "resolved", success |-> TRUE, txHash |-> hash, error |-> FALSE]

IdleService ==
    [stage |-> "idle", passed |-> FALSE, response |-> NoResponse, sent |-> NotSent,
     reply |-> NoReply]

\* ------------------------------------------------------------ quote cache
\* isCacheExpired's expirationTimeMs, 2 * 60 * 1000 ms, in minutes
expirationTimeMs == 2

\* network.toString(), token addresses and amounts of conversion requests;
\* a string is the sequence of its parts between underscores
QuoteNetworks == {<<"56">>}
QuoteFromTokens == {<<"0xaa">>}
QuoteToTokens == {<<"0xbb">>, <<"0xcc">>}
QuoteAmounts == {0, 1, 6}

\* `token_conversion_${network}_${fromToken}_${toToken}`
generateCacheKey(network, fromToken, toToken) ==
    <<"token", "conversion">> \o network \o fromToken \o toToken
CacheKeys ==
    {generateCacheKey(n, f, t) : n \in QuoteNetworks, f \in QuoteFromTokens, t \in QuoteToTokens}

\* response.data of /apiSwap/getConvert
ConversionData(fromAmount, toAmount) == [fromAmount |-> fromAmount, toAmount |-> toAmount]
Quotes == {ConversionData(2, 3), ConversionData(4, 2)}

\* JSON.stringify of a cached entry: its fields in order; an entry written
\* without a timestamp has two
JSONstringify(data) ==
    IF data.timestamp = 0
    THEN <<data.fromAmount, data.toAmount>>
    ELSE <<data.fromAmount, data.toAmount, data.timestamp>>
\* JSON.parse of a stored string; a missing timestamp reads as a falsy one
JSONparse(item) ==
    [fromAmount |-> item[1], toAmount |-> item[2],
     timestamp |-> IF Len(item) >= 3 THEN item[3] ELSE 0]
\* localStorage.getItem of a key never written
NoItem == <<>>

\* a number as a fraction in lowest terms
RECURSIVE GCD(_, _)
GCD(a, b) == IF b = 0 THEN a ELSE GCD(b, a % b)
Fraction(num, den) ==
    IF num = 0 THEN <<0, 1>> ELSE <<num \div GCD(num, den), den \div GCD(num, den)>>
\* the quote's toAmount, whatever the amount
Unscaled(amount, data) == Fraction(data.toAmount, 1)
\* amount * (toAmount / fromAmount)
Scaled(amount, data) == Fraction(amount * data.toAmount, data.fromAmount)

\* a conversion request and what getTokenConversion resolved with
Request(key, amount) == [key |-> key, amount |-> amount]
\* a call of getTokenConversion, and whether it called localStorage.removeItem
Asked(key, amount, removed) == [key |-> key, amount |-> amount, removed |-> removed]
NoRequest == Asked(<<>>, 0, FALSE)
Answer(success, fromAmount, toAmount, fromCache) ==
    [success |-> success, fromAmount |-> fromAmount, toAmount |-> toAmount,
     fromCache |-> fromCache]
NoAnswer == Answer("none", 0, <<0, 1>>, FALSE)
NoConversion == Answer("false", 0, <<0, 1>>, FALSE)

VARIABLES
    flow,                \* "swap" | "deposit": the hook this session mounts
    mounted,             \* the hook instance is mounted
    hasWallet,           \* TransactionService.primaryWallet is set
    isLoading,           \* useState isLoading
    isPending,           \* useState isPending
    txHash,              \* useState txHash (swap) / transactionHash (deposit)
    timeLeft,            \* useState timeLeft
    transactionSuccess,  \* useState transactionSuccess (swap)
    pollingIntervalRef,  \* useRef: id of the last interval created, 0 = null
    retryCountRef,       \* useRef retryCountRef
    chainId,             \* store.blockchain.network.chainId
    intent,              \* the form: fromToken, toToken, exchangeAmount
    approved,            \* isTokenAllowed (swap) / isApproved (deposit)
    approving,           \* an approval has been requested and not yet resolved
    isApproving,         \* useState isApproving (deposit)
    timers,              \* live polling intervals: [id, hash]
    skew,                \* seconds the countdown is ahead of the polling interval
    inflight,            \* bag of promises not yet settled
    submitting,          \* a submission has been sent and not yet resolved
    transactions,        \* store.blockchain.transaction.transactions
    \* history (observers of the calls the handlers make)
    queries,             \* status queries issued since the last submission
    completions,         \* hash -> calls of onTransactionComplete
    toast,               \* notification emitted by the last step
    returned,            \* what executeSwap resolved with in the last step; "reset" marks a reset
    result,              \* what the query settled in the last step reported: an outcome or an error
    service,             \* the TransactionService.executeSwap call under way, or the last one
    cache,               \* localStorage: cache key -> stored string
    now,                 \* Date.now(), in minutes
    fetches,             \* getConvert requests in flight
    path,                \* the route of the deposit call under way, or of the last one
    checks,              \* checkAllowance requests in flight, by token address
    asked,               \* the conversion requested in the last step
    answer,              \* what getTokenConversion resolved with in the last step
    sync                 \* useSwap's token list, its debounce timeouts and what the last step did with them

\* state the polling and countdown effects manage
tracker == <<isPending, txHash, timeLeft, pollingIntervalRef, retryCountRef, timers>>
history == <<queries, completions>>
\* what a network change and the orchestrator work on
session == <<chainId, intent, approved, approving, isApproving>>
\* what the TransactionService singleton holds besides primaryWallet
quotes == <<cache, now, fetches, asked, answer>>
backend == <<service, quotes, checks, path, sync>>
vars == <<flow, mounted, hasWallet, isLoading, transactionSuccess, tracker, skew, inflight,
          submitting, transactions, history, toast, session, returned, result, backend>>

\* the value an entry point resolves with: the swap's executeSwap returns a
\* result object, the deposit's executeTransaction returns nothing
Resolved(value) == IF flow = "swap" THEN value ELSE "none"

\* the step returns nothing to a caller and settles no query with a terminal outcome
Quiet == returned' = "none" /\ result' = "none"

Min(a, b) == IF a < b THEN a ELSE b

\* ------------------------------------------------------------ ledger
HasTx(hash) == \E i \in 1..Len(transactions) : transactions[i].hash = hash

\* a lookup by status instead of by hash: the first record still pending
FindFirstPending(hash) ==
    IF \E i \in 1..Len(transactions) : transactions[i].status = PENDING
    THEN CHOOSE i \in 1..Len(transactions) :
            /\ transactions[i].status = PENDING
            /\ \A j \in 1..(i - 1) : transactions[j].status # PENDING
    ELSE 0

\* transactions.find((t) => t.hash === hash): index of the first match, 0 = undefined
FindTx(hash) ==
    IF HasTx(hash)
    THEN CHOOSE i \in 1..Len(transactions) :
            /\ transactions[i].hash = hash
            /\ \A j \in 1..(i - 1) : transactions[j].hash # hash
    ELSE 0

\* store.addTransaction(record): appends a record with a new id, status pending
addTransaction(hash) ==
    Append(transactions,
           [id |-> Len(transactions) + 1, hash |-> hash, status |-> PENDING,
            type |-> IF flow = "swap" THEN "SWAP" ELSE "DEPOSIT"])

\* store._updateTransaction(id, {status}): patches the record with that id
updateTransaction(id, status) ==
    [i \in 1..Len(transactions) |->
        IF transactions[i].id = id
        THEN [transactions[i] EXCEPT !.status = status]
        ELSE transactions[i]]

\* if (tx) _updateTransaction(tx.id, {status})
WriteStatus(hash, status) ==
    IF FindTx(hash) = 0 THEN transactions
    ELSE updateTransaction(transactions[FindTx(hash)].id, status)

\* ------------------------------------------------------------ promises
Query(hash, capped) == [kind |-> "query", hash |-> hash, capped |-> capped]
Refresh(hash) == [kind |-> "refresh", hash |-> hash, capped |-> FALSE]
One(p) == SetToBag({p})

\* retryCount >= MAX_RETRIES, evaluated on the argument the tick passes
AtCap(retryCount) == retryCount >= MAX_RETRIES

\* ------------------------------------------------------------ timers
\* clearInterval(pollingIntervalRef.current)
ClearRef(ts) == {t \in ts : t.id # pollingIntervalRef}

FreshId(ts) == CHOOSE n \in 1..(Cardinality(ts) + 1) : \A t \in ts : t.id # n

\* ------------------------------------------------------------ effects
\* dependency lists of the polling effect and of the countdown effect
PollDepsChanged(newPending, newHash) ==
    newPending # isPending \/ newHash # txHash

CountdownDepsChanged(newPending, newTimeLeft) ==
    newPending # isPending \/ newTimeLeft # timeLeft

\* a polling effect without cleanup: the previous interval keeps running
PollingCleanupSkipped(ts, newPending, newHash) == ts

\* cleanup of the polling effect: clearInterval(pollingIntervalRef.current)
PollingCleanup(ts, newPending, newHash) ==
    IF PollDepsChanged(newPending, newHash) THEN ClearRef(ts) ELSE ts

\* body of the countdown effect; the deposit hook clears the polling interval
\* when the effect runs with !isPending || timeLeft <= 0, the swap hook only returns
CountdownEffect(ts, newPending, newTimeLeft) ==
    IF /\ flow = "deposit"
       /\ CountdownDepsChanged(newPending, newTimeLeft)
       /\ (~newPending \/ newTimeLeft <= 0)
    THEN ClearRef(ts)
    ELSE ts

\* body of the polling effect creates an interval: if (isPending && txHash)
StartsPolling(newPending, newHash) ==
    PollDepsChanged(newPending, newHash) /\ newPending /\ newHash # NoHash

\* React commit of the state a task has set, followed by the effects whose
\* dependencies changed: cleanups first, then the bodies in declaration order
\* (countdown effect, polling effect).  ts and rc are the timers and the retry
\* count as the task itself left them.
Commit(newPending, newHash, newTimeLeft, ts, rc) ==
    LET t1 == PollingCleanup(ts, newPending, newHash)
        t2 == CountdownEffect(t1, newPending, newTimeLeft)
        start == StartsPolling(newPending, newHash)
        id == FreshId(t2)
    IN  /\ isPending' = newPending
        /\ txHash' = newHash
        /\ timeLeft' = newTimeLeft
        /\ timers' = IF start THEN t2 \cup {[id |-> id, hash |-> newHash]} ELSE t2
        /\ pollingIntervalRef' = IF start THEN id ELSE pollingIntervalRef
        /\ retryCountRef' = IF start THEN 0 ELSE rc

\* state setters of an unmounted hook do nothing; the refs and timers remain
Apply(newPending, newHash, newTimeLeft, ts, rc) ==
    IF mounted
    THEN Commit(newPending, newHash, newTimeLeft, ts, rc)
    ELSE /\ timers' = ts
         /\ retryCountRef' = rc
         /\ UNCHANGED <<isPending, txHash, timeLeft, pollingIntervalRef>>

\* ------------------------------------------------------------ initial state
AllHashes == {TempHash} \cup {WalletHash(n) : n \in 1..Len(WalletHashes)}

\* the forms a session can start from
Intents ==
    IF flow = "swap"
    THEN {Intent(f, t, a) : f \in FromTokens, t \in ToTokens, a \in Amounts}
    ELSE {Intent(f, NoToken, a) : f \in FromTokens, a \in Amounts}

\* localStorage with no conversion stored
EmptyStorage == [k \in CacheKeys |-> NoItem]

\* the hook as mounted: useState / useRef initial values, nothing in flight
Start ==
    /\ flow \in {"swap", "deposit"}
    /\ mounted = TRUE
    /\ hasWallet \in (IF flow = "swap" THEN {TRUE} ELSE BOOLEAN)
    /\ isLoading = FALSE
    /\ isPending = FALSE
    /\ txHash = NoHash
    /\ timeLeft = 0
    /\ transactionSuccess = FALSE
    /\ pollingIntervalRef = 0
    /\ retryCountRef = 0
    /\ timers = {}
    /\ skew = 0
    /\ inflight = EmptyBag
    /\ submitting = FALSE
    /\ transactions = <<>>
    /\ queries = 0
    /\ completions = [h \in AllHashes |-> 0]
    /\ toast = "none"
    /\ chainId = 1
    /\ approving = FALSE
    /\ isApproving = FALSE
    /\ returned = "none"
    /\ result = "none"
    /\ service = IdleService
    /\ now = 1
    /\ fetches = {}
    /\ checks = EmptyBag
    /\ path = IdlePath
    /\ asked = NoRequest
    /\ answer = NoAnswer
    /\ sync = SettledSync

\* a session with a filled form and the allowance granted
Init == Start /\ intent = ReadyIntent /\ approved = TRUE /\ cache = EmptyStorage

\* a session with any form, allowance granted or not
IntentInit == Start /\ intent \in Intents /\ approved \in BOOLEAN /\ cache = EmptyStorage

\* localStorage outlives the session: a key may hold what an earlier session
\* stored, with a timestamp or, from a writer that kept none, without
StoredItems ==
    {NoItem, <<2, 3>>, JSONstringify([fromAmount |-> 2, toAmount |-> 3, timestamp |-> 1])}
QuoteInit ==
    /\ Start
    /\ flow = "swap"
    /\ intent = ReadyIntent
    /\ approved = TRUE
    /\ cache \in [CacheKeys -> StoredItems]

\* ------------------------------------------------------------ submission
\* the hash a wallet broadcast returns is new
NextWalletHash ==
    WalletHash(1 + Cardinality({i \in 1..Len(transactions) :
                                    transactions[i].hash # TempHash}))

\* no call of the entry point is under way
Idle == mounted /\ ~isLoading /\ ~submitting /\ ~approving

\* an entry point without a pre-flight check
ValidAlways == TRUE

\* the pre-flight check of the entry point passes
Valid == IF flow = "swap" THEN validateSwap(intent) ELSE depositPreflight(intent)

\* an approve that is requested for every token, native ones too
NeedsApprovalOfNative == ~approved

\* !isTokenAllowed && !isNativeCurrency()  (deposit: !isApproved && !native tag)
NeedsApproval == ~approved /\ ~intent.fromToken.native

\* useSwap.executeSwap: validateSwap() is false
ValidationFails ==
    /\ Idle /\ flow = "swap"
    /\ ~validateSwap(intent)
    /\ returned' = "Validation failed"
    /\ result' = "none"
    /\ toast' = "none"
    /\ UNCHANGED <<session, flow, backend, mounted, hasWallet, isLoading, transactionSuccess, tracker,
                   skew, inflight, submitting, transactions, history>>

\* the entry point up to await approveToken(): the deposit has set isLoading
ApproveStart(maxSubmits) ==
    /\ Idle /\ Valid /\ NeedsApproval
    /\ Len(transactions) < maxSubmits
    /\ approving' = TRUE
    /\ isApproving' = (flow = "deposit")
    /\ isLoading' = (flow = "deposit")
    /\ toast' = "none"
    /\ Quiet
    /\ UNCHANGED <<chainId, intent, approved, flow, backend, mounted, hasWallet, transactionSuccess,
                   tracker, skew, inflight, submitting, transactions, history>>

\* the approval succeeded: the flag is set and the submission is sent
ApproveSucceeds ==
    /\ approving
    /\ approving' = FALSE
    /\ isApproving' = IF mounted /\ flow = "deposit" THEN FALSE ELSE isApproving
    /\ approved' = IF mounted THEN TRUE ELSE approved
    /\ submitting' = TRUE
    /\ isLoading' = IF mounted /\ flow = "swap" THEN TRUE ELSE isLoading
    /\ transactionSuccess' = FALSE
    /\ toast' = "none"
    /\ Quiet
    /\ UNCHANGED <<chainId, intent, flow, backend, mounted, hasWallet, tracker, skew, inflight,
                   transactions, history>>

\* a failed approval that has set the approved flag before it is noticed
ApproveFailsMarksApproved ==
    /\ approving
    /\ approving' = FALSE
    /\ approved' = TRUE
    /\ UNCHANGED isApproving
    /\ isLoading' = IF mounted /\ flow = "deposit" THEN FALSE ELSE isLoading
    /\ toast' = IF flow = "deposit" THEN "submitFailed" ELSE "none"
    /\ returned' = Resolved("Token approval failed")
    /\ result' = "none"
    /\ UNCHANGED <<chainId, intent, flow, backend, mounted, hasWallet, transactionSuccess,
                   tracker, skew, inflight, submitting, transactions, history>>

\* the approval failed: useSwap returns the error; the deposit throws into
\* its catch block (toast) and finally (isLoading false), past the
\* setIsApproving(false) that follows the check of the result
ApproveFails ==
    /\ approving
    /\ approving' = FALSE
    /\ UNCHANGED isApproving
    /\ isLoading' = IF mounted /\ flow = "deposit" THEN FALSE ELSE isLoading
    /\ toast' = IF flow = "deposit" THEN "submitFailed" ELSE "none"
    /\ returned' = Resolved("Token approval failed")
    /\ result' = "none"
    /\ UNCHANGED <<chainId, intent, approved, flow, backend, mounted, hasWallet, transactionSuccess,
                   tracker, skew, inflight, submitting, transactions, history>>

\* executeSwap / executeTransaction up to the first await of the submission,
\* when no approval is needed
Execute(maxSubmits) ==
    /\ Idle /\ Valid /\ ~NeedsApproval
    /\ Len(transactions) < maxSubmits
    /\ submitting' = TRUE
    /\ isLoading' = TRUE
    /\ transactionSuccess' = FALSE
    /\ toast' = "none"
    /\ Quiet
    /\ UNCHANGED <<session, flow, backend, mounted, hasWallet, tracker, skew, inflight, transactions, history>>

\* the hash a successful submission reports: the wallet's, or the placeholder
\* executeTokenTransfer returns when it has no wallet client (deposit flow)
SubmittedHash == IF hasWallet THEN NextWalletHash ELSE TempHash

\* a success branch that enters the pending state without addTransaction
LedgerOnSubmitSkipped(hash) == transactions

\* ledger after the success branch of a submission
LedgerOnSubmit(hash) == addTransaction(hash)

\* a success branch that polls for the receipt before it returns
SubmitSucceedsPollsFirst ==
    /\ submitting
    /\ transactions' = LedgerOnSubmit(SubmittedHash)
    /\ Apply(TRUE, SubmittedHash, COUNTDOWN_START, timers, retryCountRef)
    /\ skew' = IF mounted /\ StartsPolling(TRUE, SubmittedHash) THEN 0 ELSE skew
    /\ submitting' = FALSE
    /\ isLoading' = IF mounted THEN FALSE ELSE isLoading
    /\ inflight' = inflight (+) One(Query(SubmittedHash, FALSE))
    /\ queries' = 1
    /\ toast' = "none"
    /\ returned' = Resolved("success")
    /\ result' = "none"
    /\ UNCHANGED <<session, flow, backend, mounted, hasWallet, transactionSuccess, completions>>

\* the submission resolved with success and a hash
SubmitSucceeds ==
    /\ submitting
    /\ transactions' = LedgerOnSubmit(SubmittedHash)
    /\ Apply(TRUE, SubmittedHash, COUNTDOWN_START, timers, retryCountRef)
    /\ skew' = IF mounted /\ StartsPolling(TRUE, SubmittedHash) THEN 0 ELSE skew
    /\ submitting' = FALSE
    /\ isLoading' = IF mounted THEN FALSE ELSE isLoading
    /\ queries' = 0
    /\ toast' = "none"
    /\ returned' = Resolved("success")
    /\ result' = "none"
    /\ UNCHANGED <<session, flow, backend, mounted, hasWallet, transactionSuccess, inflight,
                   completions>>

\* a failure path without the finally block
SubmitFailsKeepsLoading ==
    /\ submitting
    /\ submitting' = FALSE
    /\ toast' = "submitFailed"
    /\ returned' = Resolved("failed")
    /\ result' = "none"
    /\ UNCHANGED <<session, flow, backend, mounted, hasWallet, isLoading, transactionSuccess, tracker,
                   skew, inflight, transactions, history>>

\* the submission failed: catch block and finally
SubmitFails ==
    /\ submitting
    /\ submitting' = FALSE
    /\ isLoading' = IF mounted THEN FALSE ELSE isLoading
    /\ toast' = "submitFailed"
    /\ returned' = Resolved("failed")
    /\ result' = "none"
    /\ UNCHANGED <<session, flow, backend, mounted, hasWallet, transactionSuccess, tracker, skew, inflight,
                   transactions, history>>

\* ------------------------------------------------------------ timers firing
\* a countdown interval that outlives the pending state
CountdownLiveUnpending == mounted /\ timeLeft > 0

\* the countdown effect keeps an interval: isPending && timeLeft > 0
CountdownLive == mounted /\ isPending /\ timeLeft > 0

\* callback of the polling interval: poll(txHash, retryCountRef.current); retryCountRef.current += 1
Tick(maxQueries) ==
    /\ BagCardinality(inflight) < MaxInFlight
    /\ queries < maxQueries
    /\ CountdownLive => skew - 3 >= -MaxSkew
    /\ \E t \in timers :
        inflight' = inflight (+) One(Query(t.hash, AtCap(retryCountRef)))
    /\ retryCountRef' = retryCountRef + 1
    /\ skew' = IF CountdownLive THEN skew - 3 ELSE skew
    /\ queries' = queries + 1
    /\ toast' = "none"
    /\ Quiet
    /\ UNCHANGED <<session, flow, backend, mounted, hasWallet, isLoading, transactionSuccess, isPending, txHash,
                   timeLeft, pollingIntervalRef, timers, submitting, transactions,
                   completions>>

\* callback of the countdown interval, live while isPending && timeLeft > 0
Countdown(horizon) ==
    /\ CountdownLive
    /\ timeLeft > COUNTDOWN_START - horizon
    /\ timers # {} => skew + 1 <= MaxSkew
    /\ Commit(isPending, txHash, timeLeft - 1, timers, retryCountRef)
    /\ skew' = IF timers # {} THEN skew + 1 ELSE skew
    /\ toast' = "none"
    /\ Quiet
    /\ UNCHANGED <<session, flow, backend, mounted, hasWallet, isLoading, transactionSuccess, inflight,
                   submitting, transactions, history>>

\* ------------------------------------------------------------ poll results
Queries == {p \in BagToSet(inflight) : p.kind = "query"}
Refreshes == {p \in BagToSet(inflight) : p.kind = "refresh"}

Completed(hash) == [completions EXCEPT ![hash] = Min(@ + 1, 2)]

\* a receipt, or a backend status, exists only for a hash that was broadcast
Broadcast(hash) == hash # TempHash

\* a timeout branch that marks the record failed
LedgerOnTimeoutFailed(hash) == WriteStatus(hash, FAILED)

\* ledger after the branch that gives up at the retry cap: no _updateTransaction
LedgerOnTimeout(hash) == transactions

\* the terminal branches share: clearInterval(pollingIntervalRef.current); setIsPending(false)
StopPending ==
    Apply(FALSE, txHash, timeLeft, ClearRef(timers), retryCountRef)

\* a result no branch handles: the promise settles, the tracker stays as it is
Dropped(p) ==
    /\ inflight' = inflight (-) One(p)
    /\ toast' = "none"
    /\ UNCHANGED <<session, flow, backend, mounted, hasWallet, isLoading, transactionSuccess, tracker, skew,
                   submitting, transactions, history>>

\* a non-terminal result below the retry cap
Ignored(p) == Dropped(p) /\ Quiet

\* the branches taken at retryCount >= MAX_RETRIES: stop, notify, complete
Stop(p, message) ==
    /\ StopPending
    /\ transactions' = LedgerOnTimeout(p.hash)
    /\ inflight' = inflight (-) One(p)
    /\ completions' = Completed(p.hash)
    /\ toast' = message
    /\ UNCHANGED <<session, flow, backend, mounted, hasWallet, isLoading, transactionSuccess, skew, submitting,
                   queries>>

\* retryCount >= MAX_RETRIES without a result
GiveUp(p, message) == Stop(p, message) /\ Quiet

\* a query error that stops the polling whatever the retry count
QueryErrorStops(p, message) ==
    /\ Stop(p, message)
    /\ returned' = "none"
    /\ result' = "error"

\* the query threw or answered with an error: nothing below the retry cap,
\* the give-up branch at the cap
QueryError(p, message) ==
    /\ IF p.capped THEN Stop(p, message) ELSE Dropped(p)
    /\ returned' = "none"
    /\ result' = "error"

\* a success branch that invokes onTransactionComplete first and writes
\* nothing to the ledger
ConfirmCallbackFirst(p) ==
    /\ StopPending
    /\ transactionSuccess' =
          IF mounted /\ flow = "swap" THEN TRUE ELSE transactionSuccess
    /\ inflight' = inflight (-) One(p)
    /\ completions' = Completed(p.hash)
    /\ toast' = "success"
    /\ returned' = "none"
    /\ result' = "success"
    /\ UNCHANGED <<session, flow, backend, mounted, hasWallet, isLoading, skew, submitting, queries,
                   transactions>>

\* a successful result: stop, write CONFIRMED, notify, then await fetchTokens
Confirm(p) ==
    /\ StopPending
    /\ transactionSuccess' =
          IF mounted /\ flow = "swap" THEN TRUE ELSE transactionSuccess
    /\ transactions' = WriteStatus(p.hash, CONFIRMED)
    /\ inflight' = (inflight (-) One(p)) (+) One(Refresh(p.hash))
    /\ toast' = "success"
    /\ returned' = "none"
    /\ result' = "success"
    /\ UNCHANGED <<session, flow, backend, mounted, hasWallet, isLoading, skew, submitting, queries, completions>>

\* pollTransactionReceipt: getTransactionReceipt returned a receipt with status success
SwapReceiptSuccess ==
    /\ flow = "swap"
    /\ \E p \in Queries : Broadcast(p.hash) /\ Confirm(p)

\* pollTransactionReceipt: the receipt says the transaction reverted
SwapReceiptReverted ==
    /\ flow = "swap"
    /\ \E p \in Queries :
        /\ Broadcast(p.hash)
        /\ StopPending
        /\ transactions' = WriteStatus(p.hash, FAILED)
        /\ inflight' = inflight (-) One(p)
        /\ completions' = Completed(p.hash)
        /\ toast' = "reverted"
        /\ returned' = "none"
        /\ result' = "failed"
        /\ UNCHANGED <<session, flow, backend, mounted, hasWallet, isLoading, transactionSuccess, skew,
                       submitting, queries>>

\* pollTransactionReceipt: no receipt (or no publicClient)
SwapNoReceipt ==
    /\ flow = "swap"
    /\ \E p \in Queries :
        IF p.capped THEN GiveUp(p, "timeout") ELSE Ignored(p)

\* pollTransactionReceipt: getTransactionReceipt threw (not yet mined)
SwapQueryThrows ==
    /\ flow = "swap"
    /\ \E p \in Queries : QueryError(p, "unable")

\* pollTransactionStatus: response.error === true (transaction not found, or
\* checkTransactionStatus caught a request failure)
DepositNotFound ==
    /\ flow = "deposit"
    /\ \E p \in Queries : QueryError(p, "timeout")

\* pollTransactionStatus: error === false and transaction_status === "CONFIRMED"
DepositConfirmed ==
    /\ flow = "deposit"
    /\ \E p \in Queries :
        /\ Broadcast(p.hash)
        /\ IF FindTx(p.hash) # 0 THEN Confirm(p) ELSE Ignored(p)

\* pollTransactionStatus: error is not true and the status is PENDING: no
\* branch is taken
DepositOtherStatus ==
    /\ flow = "deposit"
    /\ \E p \in Queries : Broadcast(p.hash) /\ Ignored(p)

\* pollTransactionStatus: error is not true and the status is FAILED or
\* REJECTED: no branch is taken either
DepositFailedStatus ==
    /\ flow = "deposit"
    /\ \E p \in Queries :
        /\ Broadcast(p.hash)
        /\ Dropped(p)
        /\ returned' = "none"
        /\ result' = "failed"

\* pollTransactionStatus: the try block threw (catch branch)
DepositPollThrows ==
    /\ flow = "deposit"
    /\ \E p \in Queries : QueryError(p, "unable")

\* fetchTokens resolved: onTransactionComplete()
RefreshDone ==
    \E p \in Refreshes :
        /\ inflight' = inflight (-) One(p)
        /\ completions' = Completed(p.hash)
        /\ toast' = "none"
        /\ Quiet
        /\ UNCHANGED <<session, flow, backend, mounted, hasWallet, isLoading, transactionSuccess, tracker, skew,
                       submitting, transactions, queries>>

\* a rejected fetchTokens that skips the rest of the branch
RefreshFailsSilently ==
    \E p \in Refreshes :
        /\ inflight' = inflight (-) One(p)
        /\ toast' = "none"
        /\ returned' = "none"
        /\ result' = "refreshFailed"
        /\ UNCHANGED <<session, flow, backend, mounted, hasWallet, isLoading, transactionSuccess, tracker, skew,
                       submitting, transactions, history>>

\* fetchTokens rejected: the catch logs a warning, then onTransactionComplete()
RefreshFails ==
    \E p \in Refreshes :
        /\ inflight' = inflight (-) One(p)
        /\ completions' = Completed(p.hash)
        /\ toast' = "none"
        /\ returned' = "none"
        /\ result' = "refreshFailed"
        /\ UNCHANGED <<session, flow, backend, mounted, hasWallet, isLoading, transactionSuccess, tracker, skew,
                       submitting, transactions, queries>>

\* ------------------------------------------------------------ form
\* handleExchangeAmountChange (deposit: the amount field): the user types
\* another amount
EditAmount ==
    /\ mounted
    /\ \E a \in Amounts \ {intent.exchangeAmount} :
          intent' = [intent EXCEPT !.exchangeAmount = a]
    /\ toast' = "none"
    /\ Quiet
    /\ UNCHANGED <<chainId, approved, approving, isApproving, flow, backend, mounted, hasWallet, isLoading,
                   transactionSuccess, tracker, skew, inflight, submitting, transactions,
                   history>>

\* ------------------------------------------------------------ teardown
\* resetSwapState / resetTransactionState
\* a reset that leaves the retry count and the polling interval alone
ClearedStateOnly ==
    /\ Commit(FALSE, NoHash, 0, timers, retryCountRef)
    /\ isLoading' = FALSE
    /\ transactionSuccess' = FALSE
    /\ skew' = 0
    /\ toast' = "none"
    /\ UNCHANGED <<flow, backend, mounted, hasWallet, inflight, submitting, transactions, history>>

\* resetSwapState / resetTransactionState: state, refs and the interval
Cleared ==
    /\ Commit(FALSE, NoHash, 0, ClearRef(timers), 0)
    /\ isLoading' = FALSE
    /\ transactionSuccess' = FALSE
    /\ skew' = 0
    /\ toast' = "none"
    /\ UNCHANGED <<flow, backend, mounted, hasWallet, inflight, submitting, transactions, history>>

ResetState == Cleared /\ Quiet

\* the user resets the session; resetTransactionState also clears isApproving
Reset ==
    /\ mounted /\ (isPending \/ txHash # NoHash \/ isLoading \/ isApproving)
    /\ Cleared
    /\ isApproving' = FALSE
    /\ UNCHANGED approving
    /\ returned' = "reset"
    /\ result' = "none"
    /\ UNCHANGED <<chainId, intent, approved>>

\* a network-change effect that resets the form and the allowance only
NetworkChangeKeepsTracker ==
    /\ mounted /\ flow = "swap"
    /\ chainId' \in Networks \ {chainId}
    /\ intent' = EmptyIntent
    /\ approved' = FALSE
    /\ toast' = "none"
    /\ Quiet
    /\ UNCHANGED <<approving, isApproving, flow, backend, mounted, hasWallet, isLoading, transactionSuccess,
                   tracker, skew, inflight, submitting, transactions, history>>

\* useSwap: the effect on chainId calls resetFormState, resetSwapState and
\* resetAllowancePermitState
NetworkChange ==
    /\ mounted /\ flow = "swap"
    /\ chainId' \in Networks \ {chainId}
    /\ ResetState
    /\ intent' = EmptyIntent
    /\ approved' = FALSE
    /\ UNCHANGED <<approving, isApproving>>

\* the allowance effect of the deposit, run for the selected token: a
\* bypassed token is marked approved at once, any other starts checkAllowance
AllowanceEffect(token) ==
    IF Bypassed(token)
    THEN approved' = TRUE /\ UNCHANGED checks
    ELSE /\ BagCardinality(checks) < MaxChecks
         /\ checks' = checks (+) One(token.address)
         /\ UNCHANGED approved

\* the form selects another token; the allowance effect runs for it
SelectToken ==
    /\ mounted /\ flow = "deposit"
    /\ \E token \in FromTokens :
        /\ token # intent.fromToken
        /\ intent' = [intent EXCEPT !.fromToken = token]
        /\ AllowanceEffect(token)
    /\ toast' = "none"
    /\ Quiet
    /\ UNCHANGED <<chainId, approving, isApproving, flow, service, quotes, path, sync, mounted, hasWallet, isLoading,
                   transactionSuccess, tracker, skew, inflight, submitting, transactions,
                   history>>

\* a checkAllowance request settles, whichever token is selected by now:
\* setIsApproved(hasAllowance); a request that failed counts as no allowance
AllowanceResolves ==
    /\ \E address \in BagToSet(checks), hasAllowance \in BOOLEAN :
        /\ checks' = checks (-) One(address)
        /\ approved' = IF mounted THEN hasAllowance ELSE approved
    /\ toast' = "none"
    /\ Quiet
    /\ UNCHANGED <<chainId, intent, approving, isApproving, flow, service, quotes, path, sync, mounted, hasWallet,
                   isLoading, transactionSuccess, tracker, skew, inflight, submitting,
                   transactions, history>>

\* useDepositTransaction reads chainId; neither the countdown effect nor the
\* polling effect depends on it, so the tracker is left as it is; the
\* allowance effect does depend on it and runs again
DepositNetworkChange ==
    /\ mounted /\ flow = "deposit"
    /\ chainId' \in Networks \ {chainId}
    /\ AllowanceEffect(intent.fromToken)
    /\ toast' = "none"
    /\ Quiet
    /\ UNCHANGED <<intent, approving, isApproving, flow, service, quotes, path, sync, mounted, hasWallet, isLoading,
                   transactionSuccess, tracker, skew, inflight, submitting, transactions,
                   history>>

\* the component unmounts: effect cleanups run, the hook state is gone
Unmount ==
    /\ mounted
    /\ mounted' = FALSE
    /\ timers' = ClearRef(timers)
    /\ isLoading' = FALSE
    /\ isPending' = FALSE
    /\ txHash' = NoHash
    /\ timeLeft' = 0
    /\ transactionSuccess' = FALSE
    /\ skew' = 0
    /\ toast' = "none"
    /\ sync' = [sync EXCEPT !.timeouts = clearTimeout(sync.timeouts), !.last = "none"]
    /\ Quiet
    /\ UNCHANGED <<session, flow, service, quotes, checks, path, hasWallet, pollingIntervalRef,
                   retryCountRef, inflight, submitting, transactions, history>>

\* ------------------------------------------------------------ TransactionService.executeSwap
\* what the hooks hold, none of which the service touches
hook ==
    <<flow, mounted, isLoading, transactionSuccess, tracker, skew, inflight, submitting,
      transactions, history, toast, session, returned, result>>

\* setPrimaryWallet(primaryWallet): the singleton stores a wallet or null
SetPrimaryWallet ==
    /\ \E wallet \in BOOLEAN : hasWallet' = wallet
    /\ hasWallet' # hasWallet
    /\ UNCHANGED <<hook, backend>>

\* a caller invokes executeSwap, passing a wallet or not; with neither a
\* passed nor a stored wallet the function throws before its try block, so
\* the promise it returned is rejected
ServiceExecuteSwap ==
    /\ service.stage \in {"idle", "done"}
    /\ \E passed \in BOOLEAN :
        service' =
            IF passed \/ hasWallet
            THEN [IdleService EXCEPT !.stage = "preparing", !.passed = passed]
            ELSE [IdleService EXCEPT !.stage = "done", !.reply = Thrown]
    /\ UNCHANGED <<hook, hasWallet, quotes, checks, path, sync>>

\* SwapPrepared without the check of an error field in the data
SwapPreparedUnchecked ==
    /\ service.stage = "preparing"
    /\ \E r \in SwapResponses :
        service' =
            IF r.kind \in {"prepared", "refused"}
            THEN [service EXCEPT !.stage = "client", !.response = r]
            ELSE [service EXCEPT !.stage = "done", !.response = r, !.reply = Failure]
    /\ UNCHANGED <<hook, hasWallet, quotes, checks, path, sync>>

\* makeRequest("/apiSwap/swap") settles: a failed request, the error flag or
\* an error field in the data throw into the catch block
SwapPrepared ==
    /\ service.stage = "preparing"
    /\ \E r \in SwapResponses :
        service' =
            IF r.kind = "prepared"
            THEN [service EXCEPT !.stage = "client", !.response = r]
            ELSE [service EXCEPT !.stage = "done", !.response = r, !.reply = Failure]
    /\ UNCHANGED <<hook, hasWallet, quotes, checks, path, sync>>

\* wallet.getWalletClient() settles; with a client, sendTransaction is called
\* with the prepared to and data and BigInt(txDetails.value || "0")
WalletClient ==
    /\ service.stage = "client"
    /\ \E client \in BOOLEAN :
        service' =
            IF client
            THEN [service EXCEPT
                    !.stage = "sending",
                    !.sent = Sent(service.response.to, service.response.data,
                                  BigInt(IF service.response.value = ""
                                         THEN "0" ELSE service.response.value))]
            ELSE [service EXCEPT !.stage = "done", !.reply = Failure]
    /\ UNCHANGED <<hook, hasWallet, quotes, checks, path, sync>>

\* sendTransaction settles with a hash, or the wallet rejects
SwapSent ==
    /\ service.stage = "sending"
    /\ \E signed \in BOOLEAN :
        service' =
            [service EXCEPT
                !.stage = "done",
                !.reply = IF signed THEN Success(WalletHash(1)) ELSE Failure]
    /\ UNCHANGED <<hook, hasWallet, quotes, checks, path, sync>>

\* ------------------------------------------------------------ TransactionService.getTokenConversion
\* isCacheExpired without the check for a missing timestamp
isCacheExpiredUnstamped(cachedData) == now - cachedData.timestamp > expirationTimeMs

\* Date.now() - cachedData.timestamp > expirationTimeMs, or no timestamp
isCacheExpired(cachedData) ==
    IF cachedData.timestamp = 0 THEN TRUE ELSE now - cachedData.timestamp > expirationTimeMs

\* getCachedConversion returns the parsed entry of a key, or nothing
Cached(key) == cache[key] # NoItem /\ ~isCacheExpired(JSONparse(cache[key]))

\* the clock moves on by a minute
ClockAdvances ==
    /\ now < MaxClock
    /\ now' = now + 1
    /\ asked' = NoRequest
    /\ answer' = NoAnswer
    /\ UNCHANGED <<hook, hasWallet, service, checks, path, sync, cache, fetches>>

\* getTokenConversion up to its first await: a falsy amount is refused; a
\* cached entry that has not expired is scaled and returned; otherwise an
\* expired entry is removed and the backend is asked
GetTokenConversion ==
    /\ \E network \in QuoteNetworks, fromToken \in QuoteFromTokens,
          toToken \in QuoteToTokens, amount \in QuoteAmounts :
        LET cacheKey == generateCacheKey(network, fromToken, toToken) IN
        /\ asked' = Asked(cacheKey, amount, amount # 0 /\ cache[cacheKey] # NoItem /\ ~Cached(cacheKey))
        /\ IF amount = 0
           THEN /\ answer' = NoConversion
                /\ UNCHANGED <<cache, fetches>>
           ELSE IF Cached(cacheKey)
           THEN /\ answer' = Answer("true", amount, Scaled(amount, JSONparse(cache[cacheKey])), TRUE)
                /\ UNCHANGED <<cache, fetches>>
           ELSE /\ Cardinality(fetches) < MaxFetches
                /\ Request(cacheKey, amount) \notin fetches
                /\ cache' = [cache EXCEPT ![cacheKey] = NoItem]
                /\ fetches' = fetches \cup {Request(cacheKey, amount)}
                /\ answer' = NoAnswer
    /\ UNCHANGED <<hook, hasWallet, service, checks, path, sync, now>>

\* makeRequest("/apiSwap/getConvert") resolves with a quote: it is stored
\* with the time of storing, scaled and returned
ConversionFetched ==
    /\ \E request \in fetches, baseConversion \in Quotes :
        /\ fetches' = fetches \ {request}
        /\ cache' =
            [cache EXCEPT ![request.key] =
                JSONstringify([fromAmount |-> baseConversion.fromAmount,
                               toAmount |-> baseConversion.toAmount,
                               timestamp |-> now])]
        /\ asked' = NoRequest
        /\ answer' = Answer("true", request.amount, Scaled(request.amount, baseConversion), FALSE)
    /\ UNCHANGED <<hook, hasWallet, service, checks, path, sync, now>>

\* makeRequest throws or the response carries the error flag: the catch
\* block returns a failure and stores nothing
ConversionFails ==
    /\ \E request \in fetches :
        fetches' = fetches \ {request}
    /\ asked' = NoRequest
    /\ answer' = NoConversion
    /\ UNCHANGED <<hook, hasWallet, service, checks, path, sync, cache, now>>

\* clearConversionCache(cacheKey): one key's entry is removed, or with no
\* key every conversion entry
ClearConversionCache ==
    /\ \E cacheKey \in CacheKeys \cup {NoItem} :
        cache' =
            IF cacheKey = NoItem THEN EmptyStorage ELSE [cache EXCEPT ![cacheKey] = NoItem]
    /\ cache' # cache
    /\ asked' = NoRequest
    /\ answer' = NoAnswer
    /\ UNCHANGED <<hook, hasWallet, service, checks, path, sync, now, fetches>>

\* ------------------------------------------------------------ executeTransaction: the route
\* an auto-deposit that treats every token as a direct transfer
NextCallDirectOnly(p) == "executeTokenTransfer"

\* the submission chosen once the destination wallet is known
NextCall(p) ==
    IF ~isAutoDepositOn(p.autodepo) THEN "executeTokenTransfer"
    ELSE IF SymbolOf(p.token) \in DirectSymbols \/ p.depositType = "direct"
         THEN "executeTokenTransfer"
    ELSE IF p.depositType = "swap" /\ p.dstSwapInfo THEN "executeSwap"
    ELSE "Invalid deposit path"

\* executeTransaction past its approval: await getDestinationWallet(chainId)
DepositCall ==
    /\ flow = "deposit" /\ path.stage \in {"idle", "done"}
    /\ \E autodepo \in AutoDeposits, depositType \in DepositTypes,
          dstSwapInfo \in BOOLEAN, token \in Addresses :
        path' = Route("destination", autodepo, depositType, dstSwapInfo, token,
                      <<"getDestinationWallet">>, "none")
    /\ UNCHANGED <<hook, hasWallet, service, quotes, checks, sync>>

\* getDestinationWallet settles: without an address the call throws;
\* with one, the transfer or the swap is submitted, or the route is invalid
DestinationFetched ==
    /\ path.stage = "destination"
    /\ \E found \in BOOLEAN :
        path' =
            IF ~found THEN [path EXCEPT !.stage = "done", !.outcome = "failed"]
            ELSE IF NextCall(path) = "Invalid deposit path"
            THEN [path EXCEPT !.stage = "done", !.outcome = "Invalid deposit path"]
            ELSE [path EXCEPT !.stage = "submitted",
                              !.calls = Append(@, NextCall(path))]
    /\ UNCHANGED <<hook, hasWallet, service, quotes, checks, sync>>

\* the transfer or the swap settles; a manual deposit that was sent goes on
\* to recordManualDeposit, any other one that was sent is tracked
SubmissionSettles ==
    /\ path.stage = "submitted"
    /\ \E sent \in BOOLEAN :
        path' =
            IF ~sent THEN [path EXCEPT !.stage = "done", !.outcome = "failed"]
            ELSE IF ~isAutoDepositOn(path.autodepo)
            THEN [path EXCEPT !.stage = "recording",
                              !.calls = Append(@, "recordManualDeposit")]
            ELSE [path EXCEPT !.stage = "done", !.outcome = "tracked"]
    /\ UNCHANGED <<hook, hasWallet, service, quotes, checks, sync>>

\* recordManualDeposit settles
RecordSettles ==
    /\ path.stage = "recording"
    /\ \E recorded \in BOOLEAN :
        path' = [path EXCEPT !.stage = "done",
                             !.outcome = IF recorded THEN "tracked" ELSE "failed"]
    /\ UNCHANGED <<hook, hasWallet, service, quotes, checks, sync>>

\* ------------------------------------------------------------ specification
ExecuteStart == Execute(MaxSubmits)
PollTick == Tick(MaxTicks)
CountdownTick == Countdown(Horizon)

PollResult ==
    \/ SwapReceiptSuccess
    \/ SwapReceiptReverted
    \/ SwapNoReceipt
    \/ SwapQueryThrows
    \/ DepositNotFound
    \/ DepositConfirmed
    \/ DepositOtherStatus
    \/ DepositFailedStatus
    \/ DepositPollThrows
    \/ RefreshDone

Teardown ==
    \/ Reset
    \/ NetworkChange
    \/ Unmount

Next ==
    \/ ExecuteStart
    \/ SubmitSucceeds
    \/ SubmitFails
    \/ PollTick
    \/ CountdownTick
    \/ PollResult
    \/ Teardown
    \/ DepositNetworkChange
    \/ RefreshFails

Spec == Init /\ [][Next]_vars

\* CycleSpec follows whole cycles on one network; network changes are in
\* Spec and IntentSpec, balance refreshes that fail in Spec
CycleExecuteStart == Execute(MaxCycles)
CyclePollTick == Tick(MaxQueries)
CycleCountdownTick == Countdown(COUNTDOWN_START)

CycleNext ==
    \/ CycleExecuteStart
    \/ SubmitSucceeds
    \/ SubmitFails
    \/ CyclePollTick
    \/ CycleCountdownTick
    \/ PollResult
    \/ Reset
    \/ Unmount

CycleSpec == Init /\ [][CycleNext]_vars

\* IntentSpec follows one order from any form through validation, approval
\* and submission
IntentExecuteStart == Execute(MaxOrders)
IntentApproveStart == ApproveStart(MaxOrders)

IntentNext ==
    \/ ValidationFails
    \/ IntentApproveStart
    \/ ApproveSucceeds
    \/ ApproveFails
    \/ IntentExecuteStart
    \/ SubmitSucceeds
    \/ SubmitFails
    \/ NetworkChange
    \/ DepositNetworkChange
    \/ AllowanceResolves
    \/ EditAmount

IntentSpec == IntentInit /\ [][IntentNext]_vars

\* ServiceSpec follows calls of TransactionService.executeSwap
ServiceNext ==
    \/ SetPrimaryWallet
    \/ ServiceExecuteSwap
    \/ SwapPrepared
    \/ WalletClient
    \/ SwapSent

ServiceSpec == Init /\ [][ServiceNext]_vars

\* AllowanceSpec follows the deposit form through token selections, the
\* allowance queries they start, and the orders placed meanwhile
AllowanceInit ==
    /\ Start
    /\ flow = "deposit"
    /\ intent = Intent(NoToken, NoToken, ReadyIntent.exchangeAmount)
    /\ approved = TRUE
    /\ cache = EmptyStorage

AllowanceNext ==
    \/ SelectToken
    \/ AllowanceResolves
    \/ DepositNetworkChange
    \/ IntentApproveStart
    \/ ApproveSucceeds
    \/ ApproveFails
    \/ IntentExecuteStart
    \/ SubmitSucceeds
    \/ SubmitFails

AllowanceSpec == AllowanceInit /\ [][AllowanceNext]_vars

\* RouteSpec follows deposit calls from the destination wallet to the end
RouteNext ==
    \/ DepositCall
    \/ DestinationFetched
    \/ SubmissionSettles
    \/ RecordSettles

RouteSpec == Init /\ [][RouteNext]_vars

\* QuoteSpec follows calls of TransactionService.getTokenConversion
QuoteNext ==
    \/ ClockAdvances
    \/ GetTokenConversion
    \/ ConversionFetched
    \/ ConversionFails
    \/ ClearConversionCache

QuoteSpec == QuoteInit /\ [][QuoteNext]_vars

\* ------------------------------------------------------------ observers
\* the step settles promise p
Consumed(p) ==
    /\ p \in BagToSet(inflight)
    /\ CopiesIn(p, inflight') = CopiesIn(p, inflight) - 1

\* the step is a poll result for p that calls _updateTransaction
StatusWritten(p) ==
    /\ p.kind = "query"
    /\ Consumed(p)
    /\ toast' \in {"success", "reverted"}
    /\ HasTx(p.hash)

\* the step is a poll result that gives up at the retry cap
GaveUp == toast' \in {"timeout", "unable"}

RecordsOf(hash) == {i \in 1..Len(transactions) : transactions[i].hash = hash}

\* the session was reset or unmounted: no hash is tracked
TornDown == ~mounted \/ txHash = NoHash

\* the step starts the status query p
Started(p) == CopiesIn(p, inflight') > CopiesIn(p, inflight)

AllQueries == {Query(h, c) : h \in AllHashes, c \in BOOLEAN}

\* ------------------------------------------------------------ claims

\* C1: for one submitted swap hash no 32nd receipt query is issued: the
\* tracker has left PENDING by its 31st query, however interval ticks
\* interleave with the resolution of earlier queries.
C1_RetryCap ==
    flow = "swap" => queries <= MAX_RETRIES + 1

\* C2: once the tracker is torn down (reset, network switch, unmount) no poll
\* result writes a ledger status, even one whose query started before.
C2_NoWriteAfterTeardown ==
    [][(flow = "swap" /\ TornDown) => \A p \in Queries : ~StatusWritten(p)]_vars

\* C3: a pending deposit cycle can always still end by itself: while
\* isPending holds, the polling interval is live or a query is unsettled
\* (otherwise no timeout is ever notified and isPending stays true).
C3_DepositLeavesPending ==
    (flow = "deposit" /\ mounted /\ isPending /\ ~submitting)
        => (timers # {} \/ Queries # {})

\* C4: the countdown is advisory: a countdown tick, also the one that brings
\* timeLeft to 0 while isPending, leaves the polling interval running.
C4_CountdownAdvisory ==
    [][(isPending /\ isPending' /\ timeLeft' < timeLeft) => timers' = timers]_vars

\* C5: onTransactionComplete is invoked at most once for a pending cycle,
\* also when several polls for its hash are in flight at once.
C5_CompletesOnce ==
    \A h \in AllHashes : completions[h] <= 1

\* C6: a ledger record gets at most one status write: a poll result writes
\* only to a record that is still PENDING.
C6_SingleStatusWrite ==
    [][\A p \in Queries :
          StatusWritten(p) => transactions[FindTx(p.hash)].status = PENDING]_vars

\* C7: a CONFIRMED update for a hash, applied once or again, leaves exactly
\* one record of that hash, CONFIRMED, changes no other record, and applying
\* it once more would change nothing.
C7_IdempotentConfirm ==
    [][\A p \in Queries :
          (StatusWritten(p) /\ toast' = "success") =>
              /\ Cardinality(RecordsOf(p.hash)) = 1
              /\ \A i \in RecordsOf(p.hash) :
                    transactions' = [transactions EXCEPT ![i].status = CONFIRMED]
              /\ (\A i \in RecordsOf(p.hash) : transactions[i].status = CONFIRMED)
                    => transactions' = transactions
              /\ WriteStatus(p.hash, CONFIRMED)' = transactions']_vars

\* two successful polls for one hash have resolved
C7_Witness ==
    /\ toast = "success"
    /\ \E h \in AllHashes :
        /\ CopiesIn(Refresh(h), inflight) = 2
        /\ \A i \in RecordsOf(h) : transactions[i].status = CONFIRMED

\* C8: giving up at the retry cap writes nothing to the ledger: the record
\* of the hash keeps its status.
C8_TimeoutKeepsLedger ==
    [][GaveUp => transactions' = transactions]_vars

\* a cycle has timed out and its record is still PENDING
C8_Witness ==
    /\ toast = "timeout"
    /\ mounted /\ ~isPending /\ txHash # NoHash
    /\ \A i \in RecordsOf(txHash) : transactions[i].status = PENDING

\* C9: a pending hash is in the ledger, and so is every hash a status query
\* or a polling interval was started for.
C9_LedgerBeforePolling ==
    /\ (mounted /\ isPending /\ txHash # NoHash) => HasTx(txHash)
    /\ \A p \in BagToSet(inflight) : HasTx(p.hash)
    /\ \A t \in timers : HasTx(t.hash)

\* the pending hash is being polled
C9_Witness ==
    /\ mounted /\ isPending /\ txHash # NoHash
    /\ Query(txHash, FALSE) \in Queries

\* C10: at most one polling interval is live, and it is the one the ref holds.
C10_OneInterval ==
    /\ Cardinality(timers) <= 1
    /\ \A t \in timers : t.id = pollingIntervalRef

\* a second submission succeeded while a query of the first was unsettled
C10_Witness ==
    /\ Len(transactions) = 2
    /\ mounted /\ isPending /\ txHash = transactions[2].hash
    /\ timers = {[id |-> pollingIntervalRef, hash |-> txHash]}
    /\ transactions[1].hash # txHash
    /\ transactions[1].status = PENDING
    /\ Query(transactions[1].hash, FALSE) \in Queries

\* C11: in the swap flow a change of chainId resets the session: isPending
\* false, txHash empty, timeLeft 0, retry count 0, no polling interval and no
\* countdown left, form and allowance reset; and a receipt query is only ever
\* started for the hash that is tracked and pending, so none is started for
\* the old hash afterwards.
C11_NetworkChangeResets ==
    [][flow = "swap" =>
          /\ chainId' # chainId =>
                /\ ~isPending' /\ txHash' = NoHash /\ timeLeft' = 0
                /\ retryCountRef' = 0
                /\ timers' = {} /\ ~CountdownLive'
                /\ intent' = EmptyIntent /\ ~approved'
          /\ \A p \in AllQueries :
                Started(p) => (isPending /\ p.hash = txHash)]_vars

\* the network changed while a swap was pending and being polled: its record
\* is still PENDING, a query for it is unsettled, and nothing is tracked
C11_Witness ==
    /\ flow = "swap" /\ mounted /\ chainId = 2
    /\ ~isPending /\ txHash = NoHash /\ timers = {}
    /\ intent = EmptyIntent /\ ~approved
    /\ Len(transactions) = 1 /\ transactions[1].status = PENDING
    /\ Query(transactions[1].hash, FALSE) \in Queries

\* C12: in the deposit flow a change of chainId while a deposit is pending
\* destroys the pending state: isPending false, hash empty, timeLeft 0, no
\* polling interval and no countdown left.
C12_DepositNetworkChangeResets ==
    [][(flow = "deposit" /\ mounted /\ isPending /\ chainId' # chainId) =>
          /\ ~isPending' /\ txHash' = NoHash /\ timeLeft' = 0
          /\ timers' = {} /\ ~CountdownLive']_vars

\* C13: a terminal failure is notified exactly once: a poll result that
\* raises the revert notification finds the record of its hash not yet
\* FAILED, i.e. no earlier poll for the same hash has already raised it.
C13_OneErrorNotification ==
    [][\A p \in Queries :
          (Consumed(p) /\ toast' = "reverted" /\ HasTx(p.hash)) =>
              transactions[FindTx(p.hash)].status # FAILED]_vars

\* C14: a poll result that reports the transaction failed (swap: reverted
\* receipt; deposit: backend status FAILED or REJECTED) takes the tracker to
\* FAILED: no polling interval, isPending false, the record of the hash
\* FAILED, onTransactionComplete invoked.
C14_FailedResultFails ==
    [][\A p \in Queries :
          (Consumed(p) /\ result' = "failed" /\ HasTx(p.hash)) =>
              /\ ~isPending' /\ timers' = {}
              /\ transactions'[FindTx(p.hash)].status = FAILED
              /\ completions' = Completed(p.hash)]_vars

\* C15: a poll result that reports success for the pending hash takes the
\* tracker to CONFIRMED: no polling interval, isPending false, the record of
\* the hash CONFIRMED; onTransactionComplete is not invoked in that step but
\* when the balance refresh it starts has settled, and whenever it is invoked
\* for a confirmation the record of the hash has left PENDING.
C15_SuccessConfirms ==
    [][/\ \A p \in Queries :
            (Consumed(p) /\ result' = "success"
                /\ mounted /\ isPending /\ p.hash = txHash) =>
                /\ ~isPending' /\ timers' = {}
                /\ HasTx(p.hash)
                /\ transactions'[FindTx(p.hash)].status = CONFIRMED
                /\ completions' = completions
                /\ Started(Refresh(p.hash))
       /\ \A p \in Refreshes :
            Consumed(p) =>
                /\ completions' = Completed(p.hash)
                /\ HasTx(p.hash)
                /\ transactions[FindTx(p.hash)].status # PENDING]_vars

\* the pending hash was confirmed, its record is CONFIRMED and the callback
\* has been invoked once, after the refresh
C15_Witness ==
    /\ mounted /\ ~isPending /\ txHash # NoHash /\ timers = {}
    /\ HasTx(txHash) /\ transactions[FindTx(txHash)].status = CONFIRMED
    /\ completions[txHash] = 1
    /\ Refresh(txHash) \notin Refreshes

\* C16: a submission that succeeds starts a fresh PENDING cycle whatever the
\* tracker held before: the new hash is tracked, isPending is true, timeLeft
\* is 90, the retry count is 0, and the one live polling interval is the
\* one the ref holds, for the new hash.
C16_FreshCycle ==
    [][(mounted /\ Len(transactions') = Len(transactions) + 1) =>
          /\ txHash' = transactions'[Len(transactions')].hash
          /\ isPending' /\ timeLeft' = COUNTDOWN_START
          /\ retryCountRef' = 0
          /\ timers' = {[id |-> pollingIntervalRef', hash |-> txHash']}]_vars

\* the boundary on the decimal strings themselves, before any parsing
\* a > b for two non-empty decimal strings
Exceeds(a, b) ==
    IF a.neg # b.neg THEN b.neg /\ ~(IsZero(a) /\ IsZero(b))
    ELSE IF a.neg THEN Smaller(a, b)
    ELSE Smaller(b, a)

BothSelected(i) == i.fromToken # NoToken /\ i.toToken # NoToken

\* the form names an amount that is zero, negative or empty, or more than the
\* balance, or lacks a token, or names one token twice
OutsideBoundary(i) ==
    \/ ~BothSelected(i)
    \/ i.exchangeAmount.empty
    \/ i.exchangeAmount.neg \/ IsZero(i.exchangeAmount)
    \/ Exceeds(i.exchangeAmount, i.fromToken.balance)
    \/ i.fromToken.address = i.toToken.address

\* both tokens selected, distinct, and the amount is the whole balance
AtBalance(i) ==
    /\ BothSelected(i)
    /\ i.fromToken.address # i.toToken.address
    /\ i.exchangeAmount = i.fromToken.balance

\* the step is a call of useSwap.executeSwap that got past validateSwap()
Admitted == Idle /\ flow = "swap" /\ (approving' \/ submitting')
\* the step is a call of useSwap.executeSwap that validateSwap() stopped
Rejected == returned' = "Validation failed"

\* C17: validateSwap lets the amount equal to the balance pass and stops an
\* amount above the balance, an amount that is zero, negative or empty, a
\* missing token, and one address on both sides.
C17_ValidateBoundary ==
    [][/\ Admitted => ~OutsideBoundary(intent)
       /\ Rejected => ~AtBalance(intent)]_vars

\* C18: a call of executeSwap with a form that validateSwap rejects returns
\* "Validation failed", calls neither approveToken nor the submitter, and
\* leaves the ledger, the pending state and isLoading as they were; no call
\* gets past validation with such a form.
C18_ValidationFailsFast ==
    [][/\ Rejected =>
            /\ ~validateSwap(intent)
            /\ ~approving' /\ ~submitting'
            /\ UNCHANGED <<transactions, tracker, isLoading>>
       /\ Admitted => validateSwap(intent)]_vars

\* a swap is pending and a call with an amount that is no longer valid has
\* just been rejected
C18_Witness ==
    /\ flow = "swap" /\ mounted
    /\ returned = "Validation failed"
    /\ ~validateSwap(intent) /\ BothSelected(intent)
    /\ isPending /\ txHash # NoHash /\ Len(transactions) = 1
    /\ ~isLoading /\ ~approving /\ ~submitting

\* the step is a call of useSwap.executeSwap
Called == Idle /\ flow = "swap" /\ (Rejected \/ approving' \/ submitting')

\* C19: a call of executeSwap invokes approveToken exactly when validateSwap
\* passed, the allowance is not granted and the source token is not the
\* native currency; otherwise a valid call goes straight to the submission,
\* and the call that succeeds returns the hash it recorded.
C19_ApproveIffNeeded ==
    [][flow = "swap" =>
          /\ (~approving /\ approving') =>
                (Idle /\ validateSwap(intent) /\ ~approved /\ ~intent.fromToken.native)
          /\ (Called /\ validateSwap(intent) /\ ~approved /\ ~intent.fromToken.native) =>
                (approving' /\ ~submitting')
          /\ (Called /\ validateSwap(intent) /\ (approved \/ intent.fromToken.native)) =>
                (submitting' /\ ~approving')
          /\ returned' = "success" =>
                /\ Len(transactions') = Len(transactions) + 1
                /\ mounted => txHash' = transactions'[Len(transactions')].hash]_vars

\* a swap of the native currency was submitted and is pending although the
\* allowance was never granted
C19_Witness ==
    /\ flow = "swap" /\ mounted
    /\ returned = "success"
    /\ intent.fromToken.native /\ ~approved /\ ~approving
    /\ isPending /\ Len(transactions) = 1 /\ txHash = transactions[1].hash

\* the step is the failure of the approval an entry point was waiting for
ApprovalFailed ==
    /\ approving
    /\ IF flow = "swap" THEN returned' = "Token approval failed"
       ELSE toast' = "submitFailed"

\* C20: when the approval fails the attempt ends there: the swap returns
\* "Token approval failed", nothing is submitted, no ledger record is added,
\* the pending state is not entered and the failure leaves the approved flag
\* as it is (false, unless the deposit's allowance effect has set it while
\* the approval was awaited); an approval that resolves without a submission following is such a failure,
\* and a submission only ever starts from a call or from an approval.
C20_ApprovalFailureAborts ==
    [][/\ ApprovalFailed =>
            /\ ~approving' /\ ~submitting'
            /\ transactions' = transactions
            /\ isPending' = isPending /\ txHash' = txHash
            /\ approved' = approved
       /\ (approving /\ ~approving' /\ ~submitting') => ApprovalFailed
       /\ (submitting' /\ ~submitting) => (Idle \/ approving)]_vars

\* a deposit of a token without allowance was given up at the approval:
\* nothing in the ledger, nothing pending, still unapproved
C20_Witness ==
    /\ flow = "deposit" /\ mounted
    /\ toast = "submitFailed"
    /\ ~intent.fromToken.native /\ ~approved
    /\ ~approving /\ ~submitting /\ ~isLoading
    /\ transactions = <<>> /\ ~isPending /\ txHash = NoHash

\* C21: a swap submission that succeeds appends exactly one record to the
\* ledger (type SWAP, the returned hash, status PENDING), enters the pending
\* state (isPending, timeLeft 90, the hash tracked) and resolves with
\* success while no receipt query for that hash has been issued: the hash is
\* new to the ledger and no query for it is in flight.
C21_SubmitRecordsOnce ==
    [][(flow = "swap" /\ returned' = "success") =>
          /\ Len(transactions') = Len(transactions) + 1
          /\ SubSeq(transactions', 1, Len(transactions)) = transactions
          /\ LET record == transactions'[Len(transactions')]
             IN  /\ record.type = "SWAP" /\ record.status = PENDING
                 /\ RecordsOf(record.hash) = {}
                 /\ mounted => (isPending' /\ timeLeft' = COUNTDOWN_START
                                /\ txHash' = record.hash)
                 /\ \A p \in AllQueries :
                        p.hash = record.hash => CopiesIn(p, inflight') = 0
          /\ queries' = 0]_vars

\* a second swap has just been submitted while a query of the first is
\* unsettled: two records, the new one pending and not yet polled
C21_Witness ==
    /\ flow = "swap" /\ mounted /\ returned = "success"
    /\ Len(transactions) = 2 /\ transactions[2].status = PENDING
    /\ isPending /\ timeLeft = COUNTDOWN_START /\ txHash = transactions[2].hash
    /\ Query(transactions[1].hash, FALSE) \in Queries
    /\ queries = 0

\* the step is the failure of the submission an entry point was waiting for
SubmissionFailed == submitting /\ toast' = "submitFailed"

\* C22: a submission that fails adds no ledger record, leaves the pending
\* state as it was (a fresh one is not entered), is not sent again, and the
\* entry point finishes with isLoading false.
C22_FailedSubmissionAborts ==
    [][SubmissionFailed =>
          /\ transactions' = transactions
          /\ UNCHANGED tracker
          /\ ~submitting'
          /\ inflight' = inflight
          /\ mounted => ~isLoading']_vars

\* a second submission failed while the first one is pending: one record,
\* the first hash still tracked, nothing loading
C22_Witness ==
    /\ mounted /\ toast = "submitFailed"
    /\ ~submitting /\ ~isLoading
    /\ Len(transactions) = 1 /\ isPending /\ txHash = transactions[1].hash
    /\ timers # {}

\* C23: no asynchronous entry point rejects; TransactionService.executeSwap
\* in particular settles by resolving to a structured result, also when no
\* wallet was passed and none is stored. Here: the promise of the service's
\* executeSwap is never rejected.
C23_NeverRejects == service.reply.settled # "rejected"

\* C24: the service's executeSwap calls the wallet's sendTransaction only
\* after a backend response that is not an error, with that response's to and
\* data and its value as a number (0 when absent); after an error response
\* (error flag, or error field in the data) the wallet is never called and
\* the call resolves to {success: false, txHash: null, error}.
C24_SendsWhatWasPrepared ==
    /\ service.sent.called =>
        /\ service.response.kind = "prepared"
        /\ service.sent.to = service.response.to
        /\ service.sent.data = service.response.data
        /\ service.sent.value =
            (IF service.response.value = "" THEN 0 ELSE BigInt(service.response.value))
    /\ service.response.kind \in {"error", "refused"} =>
        /\ ~service.sent.called
        /\ service.reply = Failure

C24_Witness ==
    /\ service.sent.called
    /\ service.response.value = ""
    /\ service.sent.value = 0
    /\ service.reply.success

\* the entry stored under a key, as read back
Entry(k) == JSONparse(cache[k])
\* a stored entry that carries a timestamp no older than two minutes
Fresh(k) == cache[k] # NoItem /\ Entry(k).timestamp # 0 /\ now - Entry(k).timestamp <= 2
\* the conversion request settled by a backend response in this step
Settled == fetches \ fetches'

\* C25: getTokenConversion never answers from a cached entry older than 120
\* seconds or without a timestamp; a request that finds such an entry removes
\* it and asks the backend, and the backend's quote is stored under the key
\* with the time of storing.
C25_ExpiredNeverServed ==
    [][/\ answer'.fromCache => Fresh(asked'.key)
       /\ \A k \in CacheKeys :
            asked'.key = k /\ asked'.amount # 0 /\ cache[k] # NoItem /\ ~Fresh(k) =>
                /\ asked'.removed
                /\ cache'[k] = NoItem
                /\ ~answer'.fromCache
                /\ fetches' = fetches \cup {Request(k, asked'.amount)}
                /\ fetches' # fetches
       /\ answer'.success = "true" /\ ~answer'.fromCache =>
            \E request \in Settled :
                /\ cache'[request.key] # NoItem
                /\ JSONparse(cache'[request.key]).timestamp = now
                /\ now # 0
      ]_vars

C25_Witness ==
    /\ asked.removed
    /\ cache[asked.key] = NoItem
    /\ Request(asked.key, asked.amount) \in fetches
    /\ now > 3

\* C26: for a quote (A, B) and a non-zero amount X, getTokenConversion
\* returns fromAmount X and toAmount X * (B / A), from the cache and from a
\* fresh fetch alike; while the entry a fetch stored is within its validity
\* window, every request for its key with a non-zero amount is answered from
\* the cache without a backend request.
C26_ScalesAlike ==
    [][/\ answer'.success = "true" /\ answer'.fromCache =>
            /\ answer'.fromAmount = asked'.amount
            /\ answer'.toAmount[1] * Entry(asked'.key).fromAmount
                 = asked'.amount * Entry(asked'.key).toAmount * answer'.toAmount[2]
       /\ answer'.success = "true" /\ ~answer'.fromCache =>
            \E request \in Settled :
                /\ answer'.fromAmount = request.amount
                /\ answer'.toAmount[1] * JSONparse(cache'[request.key]).fromAmount
                     = request.amount * JSONparse(cache'[request.key]).toAmount
                         * answer'.toAmount[2]
       /\ \A k \in CacheKeys :
            asked'.key = k /\ asked'.amount # 0 /\ Fresh(k) =>
                /\ answer'.success = "true"
                /\ answer'.fromCache
                /\ fetches' = fetches
                /\ cache' = cache
      ]_vars

C26_Witness ==
    /\ answer.fromCache
    /\ asked.amount = 6
    /\ Entry(asked.key) = [fromAmount |-> 4, toAmount |-> 2, timestamp |-> now - 2]
    /\ answer.toAmount = <<3, 1>>

\* the deposit's allowance effect runs in this step: the selected token or
\* the network changed
EffectRuns ==
    flow = "deposit" /\ mounted
        /\ (intent'.fromToken # intent.fromToken \/ chainId' # chainId)
\* a token with the native tag or one of the stablecoin symbols
NativeOrStable(token) ==
    /\ token # NoToken
    /\ token.native \/ SymbolOf(token.address) \in {"USDT", "USDC", "55Swap", "USD₮0", "USDT0"}

\* C27: when the deposit's allowance check runs for a token that has the
\* native tag or whose symbol is USDT, USDC, 55Swap, USD₮0 or USDT0, it sets
\* approved to true and starts no backend request.
C27_BypassWithoutRequest ==
    [][EffectRuns /\ NativeOrStable(intent'.fromToken) =>
            approved' = TRUE /\ checks' = checks]_vars

C27_Witness ==
    /\ intent.fromToken.address = "0xaa"
    /\ ~intent.fromToken.native
    /\ approved
    /\ checks # EmptyBag

\* C28: native and direct-transfer tokens are treated as approved whatever
\* the sequence of selections, once no allowance query is pending, also when
\* the query of a token selected earlier answers after the selection changed.
C28_BypassedStayApproved ==
    flow = "deposit" /\ mounted /\ checks = EmptyBag /\ NativeOrStable(intent.fromToken)
        => approved

\* the status query that settles in this step
SettledQueries == {p \in Queries : inflight' = inflight (-) One(p)}

\* C29: a status or receipt query that throws or answers with an error
\* below the retry cap leaves the tracker as it is (pending, the interval
\* running, the retry count at what the ticks made it), notifies nothing and
\* writes nothing to the ledger; at the cap it stops the polling, clears
\* isPending, notifies an error and completes, as a timeout does, with the
\* ledger untouched.
C29_ErrorsCountAsRetries ==
    [][result' = "error" =>
        \E p \in SettledQueries :
            IF p.capped
            THEN /\ ~isPending'
                 /\ \A t \in timers' : t.id # pollingIntervalRef
                 /\ toast' \in {"timeout", "unable"}
                 /\ completions' = Completed(p.hash)
                 /\ transactions' = transactions
                 /\ retryCountRef' = retryCountRef
            ELSE /\ UNCHANGED tracker
                 /\ toast' = "none"
                 /\ transactions' = transactions
                 /\ completions' = completions
      ]_vars

C29_Witness ==
    /\ result = "error"
    /\ isPending
    /\ retryCountRef = MAX_RETRIES - 1
    /\ timers # {}
    /\ toast = "none"

\* the balance refresh that settles in this step
SettledRefreshes == {p \in Refreshes : inflight' = inflight (-) One(p)}

\* C30: when the balance refresh after a confirmation fails, the ledger is
\* left as the confirmation wrote it, isPending and the rest of the tracker
\* are left alone and the completion callback is invoked once for the hash;
\* a refresh that succeeds does exactly the same.
C30_RefreshBestEffort ==
    [][/\ result' = "refreshFailed" => SettledRefreshes # {}
       /\ \A p \in SettledRefreshes :
            /\ transactions' = transactions
            /\ UNCHANGED tracker
            /\ completions' = Completed(p.hash)
            /\ toast' = "none"
            /\ UNCHANGED <<isLoading, transactionSuccess>>
      ]_vars

C30_Witness ==
    /\ result = "refreshFailed"
    /\ ~isPending
    /\ \E i \in 1..Len(transactions) :
        /\ transactions[i].status = CONFIRMED
        /\ completions[transactions[i].hash] = 1

\* C31: an explicit reset (resetSwapState / resetTransactionState), from
\* whatever state, leaves isPending false, the hash empty, timeLeft 0, the
\* retry count 0, isLoading false and no polling interval running, and
\* changes no ledger record.
C31_ResetEmpties ==
    [][returned' = "reset" =>
          /\ ~isPending' /\ txHash' = NoHash /\ timeLeft' = 0
          /\ retryCountRef' = 0 /\ ~isLoading'
          /\ timers' = {}
          /\ transactions' = transactions]_vars

C31_Witness ==
    /\ returned = "reset"
    /\ \E i \in 1..Len(transactions) : transactions[i].status = PENDING
    /\ inflight # EmptyBag

\* C32: with auto-deposit OFF the deposit is a token transfer followed by
\* recordManualDeposit whatever depositType is; with auto-deposit ON it is a
\* token transfer for a stablecoin or depositType "direct", a swap for
\* depositType "swap" with dstSwapInfo, and otherwise fails with "Invalid
\* deposit path" with nothing submitted; the destination wallet is fetched
\* before anything is submitted.
C32_DepositRoute ==
    LET off == path.autodepo \in {"OFF", "off"}
        stable == SymbolOf(path.token) \in {"USDT", "USDC", "55Swap", "USD₮0", "USDT0"}
        submitted == Len(path.calls) >= 2
    IN  /\ path.calls # <<>> => path.calls[1] = "getDestinationWallet"
        /\ \A i \in 2..Len(path.calls) : path.calls[i] # "getDestinationWallet"
        /\ submitted /\ off => path.calls[2] = "executeTokenTransfer"
        /\ Len(path.calls) >= 3 => off /\ path.calls[3] = "recordManualDeposit"
        /\ off /\ path.outcome = "tracked" => Len(path.calls) = 3
        /\ submitted /\ ~off /\ (stable \/ path.depositType = "direct") =>
                path.calls[2] = "executeTokenTransfer"
        /\ submitted /\ ~off /\ ~stable /\ path.depositType # "direct" =>
                /\ path.calls[2] = "executeSwap"
                /\ path.depositType = "swap" /\ path.dstSwapInfo
        /\ path.outcome = "Invalid deposit path" <=>
                /\ path.stage = "done" /\ Len(path.calls) = 1 /\ path.outcome # "failed"
                /\ ~off /\ ~stable /\ path.depositType # "direct"
                /\ ~(path.depositType = "swap" /\ path.dstSwapInfo)

C32_Witness ==
    /\ path.autodepo = "off" /\ path.depositType = "swap" /\ path.dstSwapInfo
    /\ path.calls = <<"getDestinationWallet", "executeTokenTransfer", "recordManualDeposit">>
    /\ path.outcome = "tracked"

\* ------------------------------------------------------------ useSwap: token synchronisation
\* tokens.find(t => t.address?.toLowerCase() === token.address?.toLowerCase())
find(tokens, token) ==
    LET found == {a \in DOMAIN tokens : toLowerCase(a) = toLowerCase(token.address)}
    IN  IF found = {} THEN NoToken
        ELSE LET a == CHOOSE a \in found : TRUE IN Token(a, tokens[a], token.native)

\* one side of the timeout's callback: the token of the list replaces the
\* selected one when it is found and its balance differs
Updated(tokens, selected, current) ==
    LET updatedToken == find(tokens, selected)
    IN  IF selected # NoToken /\ selected.address # ""
           /\ updatedToken # NoToken /\ updatedToken.balance # selected.balance
        THEN updatedToken
        ELSE current

\* useTokens returns a new list: the effect's cleanup runs and the effect arms
\* a timeout with the list and the selection of this render
TokensRefreshed ==
    /\ mounted
    /\ flow = "swap"
    /\ \E tokens \in TokenLists :
        sync' = Sync(tokens,
                     clearTimeout(sync.timeouts)
                         \cup {Timeout(DEBOUNCE, tokens, intent.fromToken, intent.toToken)},
                     0,
                     IF sync.quiet >= DEBOUNCE THEN 1 ELSE Min(sync.burst + 1, MaxBurst),
                     IF sync.quiet >= DEBOUNCE THEN 0 ELSE sync.merges,
                     "refresh")
    /\ UNCHANGED <<hook, hasWallet, service, quotes, checks, path>>

\* a quarter of a second passes; a timeout that is due fires first
QuarterSecond ==
    /\ \A t \in sync.timeouts : t.due > 0
    /\ sync.timeouts # {} \/ sync.quiet < DEBOUNCE
    /\ sync' = [sync EXCEPT !.timeouts = {[t EXCEPT !.due = t.due - 1] : t \in sync.timeouts},
                            !.quiet = Min(sync.quiet + 1, DEBOUNCE),
                            !.last = "none"]
    /\ UNCHANGED <<hook, hasWallet, service, quotes, checks, path>>

\* the timeout's callback: setFromToken and setToToken of the form, each only
\* when the balance of the list differs from the one the callback captured
TimeoutFires ==
    \E t \in sync.timeouts :
        /\ t.due = 0
        /\ intent' = [intent EXCEPT !.fromToken = Updated(t.tokens, t.from, intent.fromToken),
                                    !.toToken = Updated(t.tokens, t.to, intent.toToken)]
        /\ sync' = [sync EXCEPT !.timeouts = sync.timeouts \ {t},
                                !.merges = IF intent' # intent THEN Min(sync.merges + 1, 2)
                                           ELSE sync.merges,
                                !.last = IF intent' # intent THEN "merge" ELSE "skip"]
        /\ UNCHANGED <<flow, mounted, hasWallet, isLoading, transactionSuccess, tracker, skew,
                       inflight, submitting, transactions, history, toast, chainId, approved,
                       approving, isApproving, returned, result, service, quotes, checks, path>>

SyncNext ==
    \/ TokensRefreshed
    \/ QuarterSecond
    \/ TimeoutFires
    \/ Unmount

SyncInit == Init /\ flow = "swap"

SyncSpec == SyncInit /\ [][SyncNext]_vars

\* C33: in a burst of token-list refreshes, each sooner than 500 ms after the
\* one before, the selection is merged at most once; the timeout fires 500 ms
\* after the last refresh, while mounted, and leaves none armed; a merge takes
\* the balances of the latest list; a side whose balance equals the list's is
\* not updated.
C33_Debounced ==
    /\ [](sync.merges <= 1)
    /\ [][sync'.last \in {"merge", "skip"} /\ sync' # sync =>
            /\ mounted
            /\ sync.quiet = DEBOUNCE
            /\ sync'.timeouts = {}]_vars
    /\ [][sync'.last = "merge" /\ sync' # sync =>
            /\ intent'.fromToken.balance = sync.tokens[toLowerCase(intent.fromToken.address)]
            /\ intent'.toToken.balance = sync.tokens[toLowerCase(intent.toToken.address)]]_vars
    /\ [][sync' # sync /\ sync'.last # "refresh" =>
            /\ (sync.tokens[toLowerCase(intent.fromToken.address)] = intent.fromToken.balance
                    => intent'.fromToken = intent.fromToken)
            /\ (sync.tokens[toLowerCase(intent.toToken.address)] = intent.toToken.balance
                    => intent'.toToken = intent.toToken)]_vars

\* a burst of three refreshes ended in one merge
C33_Witness ==
    /\ sync.last = "merge"
    /\ sync.burst = MaxBurst
    /\ sync.merges = 1
    /\ intent.fromToken.balance # ReadyIntent.fromToken.balance

\* ------------------------------------------------------------ polling effect re-run
\* a render in which the poll callback has a new identity (user, authToken,
\* onTransactionComplete or publicClient changed): the polling effect, whose
\* deps are [isPending, txHash, pollTransactionReceipt], runs its cleanup and
\* its body again
CallbackChanges ==
    /\ mounted
    /\ LET ts == ClearRef(timers)
           start == isPending /\ txHash # NoHash
           id == FreshId(ts)
       IN  /\ timers' = IF start THEN ts \cup {[id |-> id, hash |-> txHash]} ELSE ts
           /\ pollingIntervalRef' = IF start THEN id ELSE pollingIntervalRef
           /\ retryCountRef' = IF start THEN 0 ELSE retryCountRef
    /\ timers' # timers \/ retryCountRef' # retryCountRef
    /\ skew' = 0
    /\ toast' = "none"
    /\ Quiet
    /\ UNCHANGED <<session, flow, backend, mounted, hasWallet, isLoading, transactionSuccess,
                   isPending, txHash, timeLeft, inflight, submitting, transactions, history>>

RerunNext ==
    \/ ExecuteStart
    \/ SubmitSucceeds
    \/ SubmitFails
    \/ PollTick
    \/ CountdownTick
    \/ PollResult
    \/ CallbackChanges

RerunSpec == Init /\ [][RerunNext]_vars

\* C34: while one hash stays pending its retry count is never reset: no step
\* that keeps isPending and the hash lowers retryCountRef, a re-run of the
\* polling effect for a new poll callback included.
C34_CountKept ==
    [][isPending /\ isPending' /\ txHash # NoHash /\ txHash' = txHash
          => retryCountRef' >= retryCountRef]_vars

\* ------------------------------------------------------------ results of earlier cycles
\* the ledger status of a hash, "" when it has no record
StatusOf(hash) == IF FindTx(hash) = 0 THEN "" ELSE transactions[FindTx(hash)].status

\* C35: a receipt query that settles while its hash is not the tracked one
\* (another hash is tracked, or the tracker was reset) changes neither
\* isPending nor transactionSuccess and calls no completion callback; and
\* whenever transactionSuccess holds with a hash, the ledger record of that
\* hash is CONFIRMED.
C35_OwnCycleOnly ==
    /\ [](transactionSuccess /\ txHash # NoHash => StatusOf(txHash) = CONFIRMED)
    /\ [][\A p \in Queries : Consumed(p) /\ p.hash # txHash =>
            /\ isPending' = isPending
            /\ transactionSuccess' = transactionSuccess
            /\ completions' = completions]_vars

\* C36: a ledger record and a pending cycle exist only for a hash the wallet
\* returned from a broadcast: neither the tracked hash nor any ledger record
\* is the placeholder "tempHash".
C36_OnlyBroadcastHashes ==
    /\ txHash # TempHash
    /\ \A i \in 1..Len(transactions) : transactions[i].hash # TempHash

\* C37: the busy flags are cleared on every exit: once the entry point has
\* resolved (no approval and no submission is under way) in a mounted hook,
\* isLoading and isApproving are both false.
C37_BusyFlagsCleared ==
    mounted /\ ~approving /\ ~submitting => ~isLoading /\ ~isApproving

\* ------------------------------------------------------------ deposit pending view
\* DepositTransactionPending: what the view shows for the hash and the
\* timeLeft it is given; showFailedMessage is tested before isConfirmed
DepositTransactionPending(transactionHash, left) ==
    LET isConfirmed == StatusOf(transactionHash) = CONFIRMED
        isFailed == StatusOf(transactionHash) = FAILED
        showFailedMessage == isFailed \/ left = 0
    IN  IF showFailedMessage THEN "failed"
        ELSE IF isConfirmed THEN "confirmed"
        ELSE "submitted"

\* C38: the deposit's pending view, given the tracked hash and timeLeft, never
\* shows the failed state while the ledger record of that hash is CONFIRMED.
C38_ConfirmedNeverShownFailed ==
    flow = "deposit" /\ txHash # NoHash /\ StatusOf(txHash) = CONFIRMED
        => DepositTransactionPending(txHash, timeLeft) # "failed"

\* C39: 0 <= timeLeft <= 90 always; in a mounted hook timeLeft changes only
\* by a tick that lowers it by 1 while isPending, by a successful submission
\* that sets it to 90, or by a reset that sets it to 0 and leaves nothing
\* tracked.
C39_TimeLeftRange ==
    /\ [](timeLeft \in 0..COUNTDOWN_START)
    /\ [][timeLeft' # timeLeft /\ mounted' =>
            \/ isPending /\ isPending' /\ timeLeft > 0 /\ timeLeft' = timeLeft - 1
            \/ submitting /\ ~submitting' /\ isPending' /\ txHash' # NoHash
               /\ timeLeft' = COUNTDOWN_START
            \/ ~isPending' /\ txHash' = NoHash /\ timeLeft' = 0]_vars

\* the countdown of a pending hash has run down to 0
C39_Witness ==
    mounted /\ isPending /\ txHash # NoHash /\ timeLeft = 0

\* ------------------------------------------------------------ useSwap: token selection
\* the tokens the selector offers; a list may spell one address in two cases
SelectableAddresses == {"0xaa", "0xAA", "0xbb"}
Selectable ==
    {NoToken} \cup {Token(a, b, FALSE) : a \in SelectableAddresses, b \in Balances}

\* updateFromToken, returned as setFromToken: the sides are swapped when the
\* chosen token is the one selected on the other side
updateFromToken(i, token) ==
    IF i.toToken # NoToken /\ token # NoToken /\ i.toToken.address = token.address
    THEN [i EXCEPT !.fromToken = token, !.toToken = i.fromToken]
    ELSE [i EXCEPT !.fromToken = token]

\* updateToToken, returned as setToToken
updateToToken(i, token) ==
    IF i.fromToken # NoToken /\ token # NoToken /\ i.fromToken.address = token.address
    THEN [i EXCEPT !.toToken = token, !.fromToken = i.toToken]
    ELSE [i EXCEPT !.toToken = token]

SetFromToken ==
    /\ mounted /\ flow = "swap"
    /\ \E token \in Selectable : intent' = updateFromToken(intent, token)
    /\ intent' # intent
    /\ toast' = "none"
    /\ Quiet
    /\ UNCHANGED <<chainId, approved, approving, isApproving, flow, backend, mounted, hasWallet,
                   isLoading, transactionSuccess, tracker, skew, inflight, submitting,
                   transactions, history>>

SetToToken ==
    /\ mounted /\ flow = "swap"
    /\ \E token \in Selectable : intent' = updateToToken(intent, token)
    /\ intent' # intent
    /\ toast' = "none"
    /\ Quiet
    /\ UNCHANGED <<chainId, approved, approving, isApproving, flow, backend, mounted, hasWallet,
                   isLoading, transactionSuccess, tracker, skew, inflight, submitting,
                   transactions, history>>

SelectNext ==
    \/ SetFromToken
    \/ SetToToken
    \/ EditAmount

\* the form of a fresh mount: no token on either side
SelectInit ==
    /\ Start
    /\ flow = "swap"
    /\ intent = EmptyIntent
    /\ approved = TRUE
    /\ cache = EmptyStorage

SelectSpec == SelectInit /\ [][SelectNext]_vars

\* C40: after any sequence of setFromToken and setToToken, whenever both sides
\* are set their addresses differ when compared without regard to case.
C40_SidesDiffer ==
    intent.fromToken # NoToken /\ intent.toToken # NoToken
        => toLowerCase(intent.fromToken.address) # toLowerCase(intent.toToken.address)

====
